---- MODULE Spec2Model ----
(***************************************************************************)
(* Chaum-Pedersen proofs of electionguard (chaum_pedersen.py): the         *)
(* disjunctive (zero-or-one) proof and the constant proof, their builders  *)
(* and their verifiers.                                                    *)
(*                                                                         *)
(* The group (group.py), the hash (hash.py), the nonce stream (nonces.py)  *)
(* and ElGamal encryption (elgamal.py) are collaborators whose code is not *)
(* part of the file modelled here; they are modelled from their contracts. *)
(* The group is a small one with the shape of the production group: Q is   *)
(* prime, P is a prime with Q | P - 1, G generates the subgroup of order   *)
(* Q, the sane-constant limit is below Q, and the product of two scalars   *)
(* below Q is below P (in production Q < 2^256, P > 2^4095 and the limit   *)
(* is 1_000_000_000).                                                      *)
(***************************************************************************)
EXTENDS Integers, Sequences, FiniteSets, TLC

VARIABLES
    k,          \* the ElGamal public key handed to builder and verifier
    r,          \* the nonce the ciphertext was encrypted with
    seed,       \* the seed handed to the builder
    m,          \* the plaintext the ciphertext encrypts
    hashSalt,   \* which hash function of the modelled family hash_elems is
    message,    \* the ciphertext [alpha, beta]
    kind,       \* "none", "disjunctive" or "constant": the proof at hand
    plaintext,  \* the plaintext / constant argument the builder was given
    proof,      \* the proof record (meaningful when kind # "none")
    pc,         \* "start", "built", "raised", "verified", "tampered", "reverified"
    outcome,    \* "none", "valid", "invalid": what the verifier returned
    raised,     \* TRUE when the last call ended with an error instead of a value
    log,        \* the warnings handed to log_warning, oldest first
    work,       \* nonces drawn, exponentiations and hashes done by the builder
    tampered    \* the field replaced after the first verification, or "none"

vars == <<k, r, seed, m, hashSalt, message, kind, plaintext, proof, pc,
          outcome, raised, log, work, tampered>>

----------------------------------------------------------------------------
(* group.py *)

P == 31
Q == 5
G == 2
ZERO_MOD_Q == 0
ONE_MOD_P == 1
\* int_to_q's "no value" (Python None); every scalar is >= 0
NONE == -1

ElementsModQ == 0 .. (Q - 1)

RECURSIVE PowP(_, _)
PowP(b, e) == IF e <= 0 THEN ONE_MOD_P % P ELSE (b * PowP(b, e - 1)) % P

GPowP(e) == PowP(G, e)

MultP(x, y) == (x * y) % P

MultP3(x, y, z) == (((x * y) % P) * z) % P

ValidResidue(x) == /\ 0 <= x
                   /\ x < P
                   /\ PowP(x, Q) = ONE_MOD_P

InBoundsQ(x) == 0 <= x /\ x < Q

AddQ(a, b) == (a + b) % Q

AMinusBQ(a, b) == (a - b) % Q

APlusBCQ(a, b, c) == (a + b * c) % Q

NegateQ(a) == (Q - a) % Q

IntToQ(i) == IF 0 <= i /\ i < Q THEN i ELSE NONE

\* the subgroup of order Q: what valid_residue accepts
Residues == {GPowP(i) : i \in ElementsModQ}

----------------------------------------------------------------------------
(* hash.py, nonces.py, elgamal.py *)

RECURSIVE Digest(_, _)
Digest(elems, n) ==
    IF n = 0 THEN 0 ELSE (Digest(elems, n - 1) * 7 + elems[n] + 1) % P

\* hash_elems: a deterministic map from the ordered elements to a scalar in
\* [0, Q); hashSalt ranges over a family in which every input takes every
\* value of [0, Q)
HashElems(elems) == (Digest(elems, Len(elems)) + hashSalt) % Q

LabelCode(label) == IF label = "disjoint-chaum-pedersen-proof" THEN 1 ELSE 2

\* Nonces(seed, label)[i]: the same (seed, label, i) always gives the same scalar
Nonces(s, label, i) == HashElems(<<HashElems(<<s, LabelCode(label)>>), i>>)

ElGamalEncrypt(mm, rr, kk) == [alpha |-> GPowP(rr), beta |-> MultP(GPowP(mm), PowP(kk, rr))]

----------------------------------------------------------------------------
(* chaum_pedersen.py: the builders *)

\* the limit of sane_constant (1_000_000_000 in the source), scaled with the
\* group: below Q, and (Q - 1) * (limit - 1) < P as in the source
SANE_CONSTANT_LIMIT == 3

\* the largest plaintext argument the disjunctive builder is tried with
MaxPlaintext == 2

PlaintextInputs == -1 .. MaxPlaintext
ConstantInputs == -1 .. Q

NoWork == [nonces |-> 0, pows |-> 0, hashes |-> 0]

\* variant of PlaintextOk without the assertion: C6 must not hold of it
PlaintextOk_Unchecked(pt) == TRUE

PlaintextOk(pt) == 0 <= pt /\ pt <= 1

\* variant of MakeDisjunctiveZero drawing the nonces in the order u0, v1, c1:
\* C10 must not hold of it
MakeDisjunctiveZero_NonceOrder(msg, rr, kk, s) ==
    LET alpha == msg.alpha
        beta == msg.beta
        u0 == Nonces(s, "disjoint-chaum-pedersen-proof", 0)
        v1 == Nonces(s, "disjoint-chaum-pedersen-proof", 1)
        c1 == Nonces(s, "disjoint-chaum-pedersen-proof", 2)
        a0 == GPowP(u0)
        b0 == PowP(kk, u0)
        q_minus_c1 == NegateQ(c1)
        a1 == MultP(GPowP(v1), PowP(alpha, q_minus_c1))
        b1 == MultP3(PowP(kk, v1), GPowP(c1), PowP(beta, q_minus_c1))
        c == HashElems(<<alpha, beta, a0, b0, a1, b1>>)
        c0 == AMinusBQ(c, c1)
        v0 == APlusBCQ(u0, c0, rr)
    IN  [a0 |-> a0, b0 |-> b0, a1 |-> a1, b1 |-> b1,
         c0 |-> c0, c1 |-> c1, v0 |-> v0, v1 |-> v1]

MakeDisjunctiveZero(msg, rr, kk, s) ==
    LET alpha == msg.alpha
        beta == msg.beta
        c1 == Nonces(s, "disjoint-chaum-pedersen-proof", 0)
        v1 == Nonces(s, "disjoint-chaum-pedersen-proof", 1)
        u0 == Nonces(s, "disjoint-chaum-pedersen-proof", 2)
        a0 == GPowP(u0)
        b0 == PowP(kk, u0)
        q_minus_c1 == NegateQ(c1)
        a1 == MultP(GPowP(v1), PowP(alpha, q_minus_c1))
        b1 == MultP3(PowP(kk, v1), GPowP(c1), PowP(beta, q_minus_c1))
        c == HashElems(<<alpha, beta, a0, b0, a1, b1>>)
        c0 == AMinusBQ(c, c1)
        v0 == APlusBCQ(u0, c0, rr)
    IN  [a0 |-> a0, b0 |-> b0, a1 |-> a1, b1 |-> b1,
         c0 |-> c0, c1 |-> c1, v0 |-> v0, v1 |-> v1]

\* variant of MakeDisjunctiveOne answering the simulated branch's challenge
\* c0 instead of c1 in v1: C1 must not hold of it
MakeDisjunctiveOne_WrongChallenge(msg, rr, kk, s) ==
    LET alpha == msg.alpha
        beta == msg.beta
        c0 == Nonces(s, "disjoint-chaum-pedersen-proof", 0)
        v0 == Nonces(s, "disjoint-chaum-pedersen-proof", 1)
        u1 == Nonces(s, "disjoint-chaum-pedersen-proof", 2)
        q_minus_c0 == NegateQ(c0)
        a0 == MultP(GPowP(v0), PowP(alpha, q_minus_c0))
        b0 == MultP(PowP(kk, v0), PowP(beta, q_minus_c0))
        a1 == GPowP(u1)
        b1 == PowP(kk, u1)
        c == HashElems(<<alpha, beta, a0, b0, a1, b1>>)
        c1 == AMinusBQ(c, c0)
        v1 == APlusBCQ(u1, c0, rr)
    IN  [a0 |-> a0, b0 |-> b0, a1 |-> a1, b1 |-> b1,
         c0 |-> c0, c1 |-> c1, v0 |-> v0, v1 |-> v1]

MakeDisjunctiveOne(msg, rr, kk, s) ==
    LET alpha == msg.alpha
        beta == msg.beta
        c0 == Nonces(s, "disjoint-chaum-pedersen-proof", 0)
        v0 == Nonces(s, "disjoint-chaum-pedersen-proof", 1)
        u1 == Nonces(s, "disjoint-chaum-pedersen-proof", 2)
        q_minus_c0 == NegateQ(c0)
        a0 == MultP(GPowP(v0), PowP(alpha, q_minus_c0))
        b0 == MultP(PowP(kk, v0), PowP(beta, q_minus_c0))
        a1 == GPowP(u1)
        b1 == PowP(kk, u1)
        c == HashElems(<<alpha, beta, a0, b0, a1, b1>>)
        c1 == AMinusBQ(c, c0)
        v1 == APlusBCQ(u1, c1, rr)
    IN  [a0 |-> a0, b0 |-> b0, a1 |-> a1, b1 |-> b1,
         c0 |-> c0, c1 |-> c1, v0 |-> v0, v1 |-> v1]

\* variant of MakeConstantProof with the response v = u + c, r left out:
\* C2 must not hold of it
MakeConstantProof_NoNonce(msg, constant, rr, kk, s) ==
    LET alpha == msg.alpha
        beta == msg.beta
        u == Nonces(s, "constant-chaum-pedersen-proof", 0)
        a == GPowP(u)
        b == PowP(kk, u)
        c == HashElems(<<alpha, beta, a, b>>)
        v == AddQ(u, c)
    IN  [a |-> a, b |-> b, c |-> c, v |-> v, constant |-> constant]

MakeConstantProof(msg, constant, rr, kk, s) ==
    LET alpha == msg.alpha
        beta == msg.beta
        u == Nonces(s, "constant-chaum-pedersen-proof", 0)
        a == GPowP(u)
        b == PowP(kk, u)
        c == HashElems(<<alpha, beta, a, b>>)
        v == APlusBCQ(u, c, rr)
    IN  [a |-> a, b |-> b, c |-> c, v |-> v, constant |-> constant]

\* make_disjunctive_chaum_pedersen(message, r, k, seed, pt)
MakeDisjunctive ==
    /\ pc = "start"
    /\ \E pt \in PlaintextInputs :
         /\ plaintext' = pt
         /\ IF ~PlaintextOk(pt)
              THEN /\ pc' = "raised"
                   /\ raised' = TRUE
                   /\ UNCHANGED <<kind, proof, work>>
              ELSE /\ pc' = "built"
                   /\ raised' = FALSE
                   /\ kind' = "disjunctive"
                   /\ IF pt = 0
                        THEN /\ proof' = MakeDisjunctiveZero(message, r, k, seed)
                             /\ work' = [nonces |-> 3, pows |-> 7, hashes |-> 1]
                        ELSE /\ proof' = MakeDisjunctiveOne(message, r, k, seed)
                             /\ work' = [nonces |-> 3, pows |-> 6, hashes |-> 1]
    /\ UNCHANGED <<k, r, seed, m, hashSalt, message, outcome, log, tampered>>

\* make_constant_chaum_pedersen(message, constant, r, k, seed)
MakeConstant ==
    /\ pc = "start"
    /\ \E constant \in ConstantInputs :
         /\ plaintext' = constant
         /\ proof' = MakeConstantProof(message, constant, r, k, seed)
    /\ kind' = "constant"
    /\ pc' = "built"
    /\ raised' = FALSE
    /\ work' = [nonces |-> 1, pows |-> 2, hashes |-> 1]
    /\ UNCHANGED <<k, r, seed, m, hashSalt, message, outcome, log, tampered>>

----------------------------------------------------------------------------
(* chaum_pedersen.py: the verifiers *)

\* the fifteen checks of is_valid_disjunctive_chaum_pedersen
DisjunctiveChecks(msg, pf, kk) ==
    LET alpha == msg.alpha
        beta == msg.beta
        c == HashElems(<<alpha, beta, pf.a0, pf.b0, pf.a1, pf.b1>>)
    IN  [in_bounds_alpha |-> ValidResidue(alpha),
         in_bounds_beta |-> ValidResidue(beta),
         in_bounds_a0 |-> ValidResidue(pf.a0),
         in_bounds_b0 |-> ValidResidue(pf.b0),
         in_bounds_a1 |-> ValidResidue(pf.a1),
         in_bounds_b1 |-> ValidResidue(pf.b1),
         in_bounds_c0 |-> InBoundsQ(pf.c0),
         in_bounds_c1 |-> InBoundsQ(pf.c1),
         in_bounds_v0 |-> InBoundsQ(pf.v0),
         in_bounds_v1 |-> InBoundsQ(pf.v1),
         consistent_c |-> (c = AddQ(pf.c0, pf.c1)),
         consistent_gv0 |-> (GPowP(pf.v0) = MultP(pf.a0, PowP(alpha, pf.c0))),
         consistent_gv1 |-> (GPowP(pf.v1) = MultP(pf.a1, PowP(alpha, pf.c1))),
         consistent_kv0 |-> (PowP(kk, pf.v0) = MultP(pf.b0, PowP(beta, pf.c0))),
         consistent_gc1kv1 |-> (MultP(GPowP(pf.c1), PowP(kk, pf.v1))
                                  = MultP(pf.b1, PowP(beta, pf.c1)))]

\* variant of DisjunctiveSuccess without consistent_c: C3 must not hold of it
DisjunctiveSuccess_NoChallengeCheck(ch) ==
    /\ ch.in_bounds_alpha
    /\ ch.in_bounds_beta
    /\ ch.in_bounds_a0
    /\ ch.in_bounds_b0
    /\ ch.in_bounds_a1
    /\ ch.in_bounds_b1
    /\ ch.in_bounds_c0
    /\ ch.in_bounds_c1
    /\ ch.in_bounds_v0
    /\ ch.in_bounds_v1
    /\ ch.consistent_gv0
    /\ ch.consistent_gv1
    /\ ch.consistent_kv0
    /\ ch.consistent_gc1kv1

\* variant of DisjunctiveSuccess without consistent_kv0: C9 must not hold of it
DisjunctiveSuccess_NoKv0(ch) ==
    /\ ch.in_bounds_alpha
    /\ ch.in_bounds_beta
    /\ ch.in_bounds_a0
    /\ ch.in_bounds_b0
    /\ ch.in_bounds_a1
    /\ ch.in_bounds_b1
    /\ ch.in_bounds_c0
    /\ ch.in_bounds_c1
    /\ ch.in_bounds_v0
    /\ ch.in_bounds_v1
    /\ ch.consistent_c
    /\ ch.consistent_gv0
    /\ ch.consistent_gv1
    /\ ch.consistent_gc1kv1

DisjunctiveSuccess(ch) ==
    /\ ch.in_bounds_alpha
    /\ ch.in_bounds_beta
    /\ ch.in_bounds_a0
    /\ ch.in_bounds_b0
    /\ ch.in_bounds_a1
    /\ ch.in_bounds_b1
    /\ ch.in_bounds_c0
    /\ ch.in_bounds_c1
    /\ ch.in_bounds_v0
    /\ ch.in_bounds_v1
    /\ ch.consistent_c
    /\ ch.consistent_gv0
    /\ ch.consistent_gv1
    /\ ch.consistent_kv0
    /\ ch.consistent_gc1kv1

\* variant of EncodeConstant that takes tmp as it is and fails on None:
\* C7 must not hold of it
EncodeConstant_Unchecked(constant) ==
    LET tmp == IntToQ(constant)
    IN  [constant_q |-> tmp, in_bounds_constant |-> tmp # NONE, fault |-> tmp = NONE]

\* tmp = int_to_q(constant) and the branch on tmp is None
EncodeConstant(constant) ==
    LET tmp == IntToQ(constant)
    IN  IF tmp = NONE
          THEN [constant_q |-> ZERO_MOD_Q, in_bounds_constant |-> FALSE, fault |-> FALSE]
          ELSE [constant_q |-> tmp, in_bounds_constant |-> TRUE, fault |-> FALSE]

\* variant of SaneConstant without the upper limit: C5 must not hold of it
SaneConstant_NoUpperLimit(constant) == 0 <= constant

SaneConstant(constant) == 0 <= constant /\ constant < SANE_CONSTANT_LIMIT

\* variant of ConsistentKv without the factor g^mult_p(c, constant_q):
\* C8 must not hold of it
ConsistentKv_NoConstant(msg, pf, kk, c, enc) ==
    /\ enc.in_bounds_constant
    /\ PowP(kk, pf.v) = MultP(pf.b, PowP(msg.beta, c))

\* the second equation: g^mult_p(c, constant_q) * k^v = b * beta^c
ConsistentKv(msg, pf, kk, c, enc) ==
    /\ enc.in_bounds_constant
    /\ MultP(GPowP(MultP(c, enc.constant_q)), PowP(kk, pf.v))
         = MultP(pf.b, PowP(msg.beta, c))

\* the ten checks of is_valid_constant_chaum_pedersen; c is rebound to the
\* recomputed hash after in_bounds_c is taken from the proof's own c
ConstantChecks(msg, pf, kk) ==
    LET alpha == msg.alpha
        beta == msg.beta
        in_bounds_alpha == ValidResidue(alpha)
        in_bounds_a == ValidResidue(pf.a)
        in_bounds_c == InBoundsQ(pf.c)
        in_bounds_v == InBoundsQ(pf.v)
        enc == EncodeConstant(pf.constant)
        c == HashElems(<<alpha, beta, pf.a, pf.b>>)
    IN  [in_bounds_alpha |-> in_bounds_alpha,
         in_bounds_beta |-> ValidResidue(beta),
         in_bounds_a |-> in_bounds_a,
         in_bounds_b |-> ValidResidue(pf.b),
         in_bounds_c |-> in_bounds_c,
         in_bounds_v |-> in_bounds_v,
         in_bounds_constant |-> enc.in_bounds_constant,
         sane_constant |-> SaneConstant(pf.constant),
         consistent_gv |-> (/\ in_bounds_v
                            /\ in_bounds_a
                            /\ in_bounds_alpha
                            /\ in_bounds_c
                            /\ GPowP(pf.v) = MultP(pf.a, PowP(alpha, c))),
         consistent_kv |-> ConsistentKv(msg, pf, kk, c, enc)]

ConstantSuccess(ch) ==
    /\ ch.in_bounds_alpha
    /\ ch.in_bounds_beta
    /\ ch.in_bounds_a
    /\ ch.in_bounds_b
    /\ ch.in_bounds_c
    /\ ch.in_bounds_v
    /\ ch.in_bounds_constant
    /\ ch.sane_constant
    /\ ch.consistent_gv
    /\ ch.consistent_kv

Verdict(success) == IF success THEN "valid" ELSE "invalid"

NextPc == IF pc = "built" THEN "verified" ELSE "reverified"

\* is_valid_disjunctive_chaum_pedersen(message, proof, k)
VerifyDisjunctive ==
    /\ pc \in {"built", "tampered"}
    /\ kind = "disjunctive"
    /\ LET ch == DisjunctiveChecks(message, proof, k)
           success == DisjunctiveSuccess(ch)
       IN  /\ outcome' = Verdict(success)
           /\ log' = IF ~success
                       THEN Append(log, [checks |-> ch, k |-> k, proof |-> proof])
                       ELSE log
    /\ raised' = FALSE
    /\ pc' = NextPc
    /\ UNCHANGED <<k, r, seed, m, hashSalt, message, kind, plaintext, proof,
                   work, tampered>>

\* is_valid_constant_chaum_pedersen(message, proof, k)
VerifyConstant ==
    /\ pc \in {"built", "tampered"}
    /\ kind = "constant"
    /\ LET ch == ConstantChecks(message, proof, k)
           success == ConstantSuccess(ch)
       IN  IF EncodeConstant(proof.constant).fault
             THEN /\ raised' = TRUE
                  /\ UNCHANGED <<outcome, log>>
             ELSE /\ raised' = FALSE
                  /\ outcome' = Verdict(success)
                  /\ log' = IF ~success
                              THEN Append(log, [checks |-> ch, k |-> k, proof |-> proof])
                              ELSE log
    /\ pc' = NextPc
    /\ UNCHANGED <<k, r, seed, m, hashSalt, message, kind, plaintext, proof,
                   work, tampered>>

----------------------------------------------------------------------------
(* the caller: a proof the verifier accepted has one value replaced and is
   verified again *)

ElementPValues == 0 .. P
ElementQValues == 0 .. Q

DisjunctivePFields == {"a0", "b0", "a1", "b1"}
DisjunctiveQFields == {"c0", "c1", "v0", "v1"}
DisjunctiveFields == DisjunctivePFields \cup DisjunctiveQFields
ConstantFields == {"a", "b", "c", "v", "constant"}
MessageFields == {"alpha", "beta"}

FieldValues(f) ==
    IF f \in DisjunctiveQFields \cup {"c", "v"} THEN ElementQValues
    ELSE IF f = "constant" THEN ConstantInputs
    ELSE ElementPValues

Replace(fields) ==
    /\ pc = "verified"
    /\ outcome = "valid"
    /\ \E f \in fields \cup MessageFields \cup {"k"} :
         \E val \in FieldValues(f) :
            /\ tampered' = f
            /\ IF f = "k"
                 THEN /\ val # k
                      /\ k' = val
                      /\ UNCHANGED <<message, proof>>
                 ELSE IF f \in MessageFields
                 THEN /\ val # message[f]
                      /\ message' = [message EXCEPT ![f] = val]
                      /\ UNCHANGED <<k, proof>>
                 ELSE /\ val # proof[f]
                      /\ proof' = [proof EXCEPT ![f] = val]
                      /\ UNCHANGED <<k, message>>
    /\ pc' = "tampered"
    /\ UNCHANGED <<r, seed, m, hashSalt, kind, plaintext, outcome, raised, log, work>>

TamperDisjunctive == kind = "disjunctive" /\ Replace(DisjunctiveFields)

TamperConstant == kind = "constant" /\ Replace(ConstantFields)

----------------------------------------------------------------------------

Init ==
    /\ k \in Residues
    /\ r \in ElementsModQ
    /\ seed \in ElementsModQ
    /\ m \in ElementsModQ
    /\ hashSalt \in ElementsModQ
    /\ message = ElGamalEncrypt(m, r, k)
    /\ kind = "none"
    /\ plaintext = 0
    /\ proof = [constant |-> 0]
    /\ pc = "start"
    /\ outcome = "none"
    /\ raised = FALSE
    /\ log = <<>>
    /\ work = NoWork
    /\ tampered = "none"

NextDisjunctive == MakeDisjunctive \/ VerifyDisjunctive \/ TamperDisjunctive

NextConstant == MakeConstant \/ VerifyConstant \/ TamperConstant

Next == NextDisjunctive \/ NextConstant

SpecDisjunctive == Init /\ [][NextDisjunctive]_vars

SpecConstant == Init /\ [][NextConstant]_vars

Spec == Init /\ [][Next]_vars

----------------------------------------------------------------------------
(* Properties *)

Verified == pc \in {"verified", "reverified"}

Challenge4 == HashElems(<<message.alpha, message.beta, proof.a, proof.b>>)

Challenge6 == HashElems(<<message.alpha, message.beta,
                          proof.a0, proof.b0, proof.a1, proof.b1>>)

LastWarning == log[Len(log)]

\* C1: a disjunctive proof built for a ciphertext (g^r, g^m * k^r) with the
\* plaintext argument m in {0,1}, the nonce r, a valid key k and any seed is
\* accepted by the disjunctive verifier, on the zero path and on the one path.
C1_CompletenessDisjunctive ==
    (pc = "verified" /\ kind = "disjunctive" /\ plaintext = m)
        => (outcome = "valid" /\ ~raised /\ log = <<>>)

C1_Witness ==
    /\ pc = "verified"
    /\ kind = "disjunctive"
    /\ plaintext = m
    /\ m = 1
    /\ k # ONE_MOD_P
    /\ r # 0
    /\ outcome = "valid"

\* C2: a constant proof built for a ciphertext (g^r, g^m * k^r) with the
\* constant m (0 <= m < the sane limit, m < Q), the nonce r, a valid key k and
\* any seed is accepted by the constant verifier; its second equation, with
\* the exponent mult_p(c, m) reduced mod P, holds for the challenge c.
C2_CompletenessConstant ==
    (/\ pc = "verified"
     /\ kind = "constant"
     /\ plaintext = m
     /\ 0 <= m
     /\ m < SANE_CONSTANT_LIMIT
     /\ m < Q)
        => /\ outcome = "valid"
           /\ ~raised
           /\ (PowP(G, (Challenge4 * m) % P) * PowP(k, proof.v)) % P
                = (proof.b * PowP(message.beta, Challenge4)) % P

C2_Witness ==
    /\ pc = "verified"
    /\ kind = "constant"
    /\ plaintext = m
    /\ m = SANE_CONSTANT_LIMIT - 1
    /\ Challenge4 = Q - 1
    /\ k # ONE_MOD_P
    /\ r # 0
    /\ outcome = "valid"

\* C3: after one of the eight fields of an accepted disjunctive proof is
\* replaced by a different value (ciphertext and key unchanged), the
\* disjunctive verifier rejects the proof.
C3_TamperDisjunctive ==
    (pc = "reverified" /\ kind = "disjunctive" /\ tampered \in DisjunctiveFields)
        => outcome = "invalid"

\* the replaced commitment is still a residue and the challenge still
\* matches the hash: only the first equation of branch 0 rejects the proof
C3_Witness ==
    /\ pc = "reverified"
    /\ kind = "disjunctive"
    /\ tampered = "a0"
    /\ k # ONE_MOD_P
    /\ r # 0
    /\ outcome = "invalid"
    /\ LastWarning.checks.in_bounds_a0
    /\ LastWarning.checks.consistent_c
    /\ ~LastWarning.checks.consistent_gv0

\* C4: after one of the five fields of an accepted constant proof is replaced
\* by a different value (ciphertext and key unchanged), the constant verifier
\* rejects the proof; it accepts only a proof whose own c is the recomputed
\* Hash(alpha, beta, a, b).
C4_TamperConstant ==
    /\ (pc = "reverified" /\ kind = "constant" /\ tampered \in ConstantFields)
          => outcome = "invalid"
    /\ (Verified /\ kind = "constant" /\ outcome = "valid")
          => proof.c = Challenge4

\* C5: the constant verifier rejects every proof whose constant is negative
\* or at least the sane limit, also when every other check holds.
C5_RangeRejection ==
    (/\ Verified
     /\ kind = "constant"
     /\ (proof.constant < 0 \/ proof.constant >= SANE_CONSTANT_LIMIT))
        => outcome = "invalid"

\* every check but sane_constant holds for the out-of-range constant
C5_Witness ==
    /\ Verified
    /\ kind = "constant"
    /\ proof.constant >= SANE_CONSTANT_LIMIT
    /\ k # ONE_MOD_P
    /\ r # 0
    /\ Challenge4 # 0
    /\ outcome = "invalid"
    /\ LET ch == LastWarning.checks
       IN  /\ ~ch.sane_constant
           /\ ch.in_bounds_alpha /\ ch.in_bounds_beta /\ ch.in_bounds_a
           /\ ch.in_bounds_b /\ ch.in_bounds_c /\ ch.in_bounds_v
           /\ ch.in_bounds_constant /\ ch.consistent_gv /\ ch.consistent_kv

\* C6: the disjunctive builder called with a plaintext outside {0,1} ends
\* with an error, returns no proof, and has drawn no nonce, done no
\* exponentiation and computed no hash.
C6_PlaintextPrecondition ==
    (pc # "start" /\ kind # "constant" /\ plaintext \notin {0, 1})
        => /\ pc = "raised"
           /\ raised
           /\ kind = "none"
           /\ work = NoWork
           /\ outcome = "none"

C6_Witness ==
    /\ pc = "raised"
    /\ plaintext = MaxPlaintext
    /\ raised
    /\ kind = "none"

\* the ten checks of the constant verifier, stated on the current state
ConstantChecksNow ==
    [in_bounds_alpha |-> message.alpha \in Residues,
     in_bounds_beta |-> message.beta \in Residues,
     in_bounds_a |-> proof.a \in Residues,
     in_bounds_b |-> proof.b \in Residues,
     in_bounds_c |-> proof.c \in ElementsModQ,
     in_bounds_v |-> proof.v \in ElementsModQ,
     in_bounds_constant |-> proof.constant \in ElementsModQ,
     sane_constant |-> proof.constant \in 0 .. (SANE_CONSTANT_LIMIT - 1),
     consistent_gv |->
        /\ proof.v \in ElementsModQ
        /\ proof.a \in Residues
        /\ message.alpha \in Residues
        /\ proof.c \in ElementsModQ
        /\ PowP(G, proof.v) = (proof.a * PowP(message.alpha, Challenge4)) % P,
     consistent_kv |->
        /\ proof.constant \in ElementsModQ
        /\ (PowP(G, (Challenge4 * proof.constant) % P) * PowP(k, proof.v)) % P
             = (proof.b * PowP(message.beta, Challenge4)) % P]

\* C7: both verifiers end with a boolean and no error for every ciphertext,
\* key and proof, out-of-range field elements included; a constant int_to_q
\* cannot encode gives in_bounds_constant = false, the other checks are
\* evaluated all the same, and the result is false.
C7_VerificationNeverFaults ==
    Verified =>
        /\ ~raised
        /\ outcome \in {"valid", "invalid"}
        /\ (kind = "constant" /\ proof.constant \notin ElementsModQ)
              => /\ outcome = "invalid"
                 /\ Len(log) = 1
                 /\ ~LastWarning.checks.in_bounds_constant
                 /\ LastWarning.checks = ConstantChecksNow

\* the constant cannot be encoded, and the first equation is evaluated to true
C7_Witness ==
    /\ Verified
    /\ kind = "constant"
    /\ proof.constant \notin ElementsModQ
    /\ k # ONE_MOD_P
    /\ r # 0
    /\ ~raised
    /\ outcome = "invalid"
    /\ ~LastWarning.checks.in_bounds_constant
    /\ LastWarning.checks.consistent_gv

\* the case C8 is about: a constant proof built with the right r, k and seed
\* for a ciphertext of m, carrying another constant; both are sane and < Q
C8_WrongConstantBuilt ==
    /\ pc = "verified"
    /\ kind = "constant"
    /\ plaintext # m
    /\ m \in 0 .. (SANE_CONSTANT_LIMIT - 1)
    /\ plaintext \in 0 .. (SANE_CONSTANT_LIMIT - 1)
    /\ m < Q
    /\ plaintext < Q

\* C8 as stated: such a proof is rejected whatever the challenge hash is, 0
\* included.
C8_BindsConstant_AnyChallenge == C8_WrongConstantBuilt => outcome = "invalid"

\* C8: a constant proof built with the right r, k and seed for a ciphertext
\* of m but carrying a constant m' # m (both in the sane range and < Q) is
\* rejected when the challenge Hash(alpha, beta, a, b) is not 0, and accepted
\* when it is 0.
C8_BindsConstant_NonzeroChallenge ==
    C8_WrongConstantBuilt => (outcome = "invalid" <=> Challenge4 # 0)

C8_Witness ==
    /\ C8_WrongConstantBuilt
    /\ Challenge4 # 0
    /\ k # ONE_MOD_P
    /\ r # 0
    /\ outcome = "invalid"
    /\ LastWarning.checks.consistent_gv
    /\ ~LastWarning.checks.consistent_kv

\* the fifteen checks of the disjunctive verifier, stated on the current state
DisjunctiveChecksNow ==
    [in_bounds_alpha |-> message.alpha \in Residues,
     in_bounds_beta |-> message.beta \in Residues,
     in_bounds_a0 |-> proof.a0 \in Residues,
     in_bounds_b0 |-> proof.b0 \in Residues,
     in_bounds_a1 |-> proof.a1 \in Residues,
     in_bounds_b1 |-> proof.b1 \in Residues,
     in_bounds_c0 |-> proof.c0 \in ElementsModQ,
     in_bounds_c1 |-> proof.c1 \in ElementsModQ,
     in_bounds_v0 |-> proof.v0 \in ElementsModQ,
     in_bounds_v1 |-> proof.v1 \in ElementsModQ,
     consistent_c |-> (Challenge6 = (proof.c0 + proof.c1) % Q),
     consistent_gv0 |->
        (PowP(G, proof.v0) = (proof.a0 * PowP(message.alpha, proof.c0)) % P),
     consistent_gv1 |->
        (PowP(G, proof.v1) = (proof.a1 * PowP(message.alpha, proof.c1)) % P),
     consistent_kv0 |->
        (PowP(k, proof.v0) = (proof.b0 * PowP(message.beta, proof.c0)) % P),
     consistent_gc1kv1 |->
        ((PowP(G, proof.c1) * PowP(k, proof.v1)) % P
            = (proof.b1 * PowP(message.beta, proof.c1)) % P)]

\* C9: the disjunctive verifier returns true exactly when all fifteen checks
\* hold, and hands log_warning one warning with the fifteen booleans, k and
\* the proof exactly when it returns false.
C9_AllOrNothing ==
    (Verified /\ kind = "disjunctive") =>
        /\ outcome = "valid" <=>
              \A name \in DOMAIN DisjunctiveChecksNow : DisjunctiveChecksNow[name]
        /\ outcome = "valid" => log = <<>>
        /\ outcome = "invalid" =>
              /\ Len(log) = 1
              /\ log[1] = [checks |-> DisjunctiveChecksNow, k |-> k, proof |-> proof]
        /\ Cardinality(DOMAIN DisjunctiveChecksNow) = 15

\* one check alone fails (the branch-0 equation on beta) and the proof is rejected
C9_Witness ==
    /\ pc = "reverified"
    /\ kind = "disjunctive"
    /\ tampered = "b0"
    /\ k # ONE_MOD_P
    /\ r # 0
    /\ outcome = "invalid"
    /\ Len(log) = 1
    /\ \A name \in DOMAIN DisjunctiveChecksNow :
          LastWarning.checks[name] <=> (name # "consistent_kv0")

\* C10: the plaintext=0 builder returns c1, v1 = nonces 0, 1; a0 = g^n2,
\* b0 = k^n2 for nonce 2; a1 = g^v1 * alpha^(-c1); b1 = k^v1 * g^c1 *
\* beta^(-c1); c0 = Hash(alpha, beta, a0, b0, a1, b1) - c1 mod Q and
\* v0 = n2 + c0 * r mod Q, so that c0 + c1 mod Q is the hash.
C10_ZeroBuilder ==
    (pc \in {"built", "verified"} /\ kind = "disjunctive" /\ plaintext = 0) =>
        LET n0 == Nonces(seed, "disjoint-chaum-pedersen-proof", 0)
            n1 == Nonces(seed, "disjoint-chaum-pedersen-proof", 1)
            n2 == Nonces(seed, "disjoint-chaum-pedersen-proof", 2)
        IN  /\ proof.c1 = n0
            /\ proof.v1 = n1
            /\ proof.a0 = PowP(G, n2)
            /\ proof.b0 = PowP(k, n2)
            /\ proof.a1 \in 1 .. (P - 1)
            /\ (proof.a1 * PowP(message.alpha, proof.c1)) % P = PowP(G, proof.v1)
            /\ proof.b1 \in 1 .. (P - 1)
            /\ (proof.b1 * PowP(message.beta, proof.c1)) % P
                  = (PowP(k, proof.v1) * PowP(G, proof.c1)) % P
            /\ proof.c0 \in ElementsModQ
            /\ (proof.c0 + proof.c1) % Q = Challenge6
            /\ proof.v0 = (n2 + proof.c0 * r) % Q

C10_Witness ==
    /\ pc = "built"
    /\ kind = "disjunctive"
    /\ plaintext = 0
    /\ proof.c1 # 0
    /\ proof.c0 # 0
    /\ Cardinality({Nonces(seed, "disjoint-chaum-pedersen-proof", i) : i \in 0 .. 2}) = 3
    /\ k # ONE_MOD_P
    /\ r # 0

====
